---- MODULE Spec2Model ----
(***************************************************************************)
(* EmbeddingsBuilder of rig-core (src/rig-core/src/embeddings/builder.rs). *)
(* The builder accumulates (document, embed targets) pairs; build()        *)
(* flattens the targets, chunks them by M::MAX_DOCUMENTS, runs the chunk   *)
(* futures through buffer_unordered and folds the results into a map keyed *)
(* by the position of the document.                                        *)
(***************************************************************************)
EXTENDS Integers, Sequences, FiniteSets, TLC

\* ------------------------------------------------------------------ bounds
MaxDocs == 2          \* documents held by the builder
MaxBatches == 3       \* chunks of one build
MaxAddLen == 3        \* length of the vector passed to documents()
BigFrags == 514       \* embed targets of the document "big"

\* the literal of `1024 / M::MAX_DOCUMENTS`
FanOut == 1024

\* the documents the caller adds, the values of M::MAX_DOCUMENTS of the model
\* type, the build() calls the state has room for and those that run in Spec
Objects == {"a", "b", "big", "bad"}
MaxDocumentsValues == {0, 1, 2, 400, 513}
AllBuilds == {1, 2}
Builds == {1}

VARIABLES
    documents,      \* self.documents: sequence of <<document, embed targets>>
    owned,          \* the caller still holds the builder (not moved and dropped)
    last_call,      \* the last call on the builder and, for the adding calls,
                    \* what it returned and the documents it tried to extract
    MAX_DOCUMENTS,  \* M::MAX_DOCUMENTS of the model type
    pc,             \* per build(): "idle", "running", "done", "failed", "panicked"
    documents_map,  \* per build(): id -> document
    chunks,         \* per build(): the chunks of the flattened stream
    status,         \* per build(), per chunk: "pending", "queued", "inflight",
                    \*                         "responded", "yielded"
    outcome,        \* per build(), per chunk: none yet, Ok or Err(error) of the call
    readyq,         \* per build(): chunks whose call completed, in completion order
    acc,            \* per build(): the accumulator of try_fold
    folded,         \* per build(): chunks folded so far, in fold order
    calls,          \* per build(): chunks whose embed_documents call was made,
                    \*              in the order of the calls
    result          \* per build(): what build() returned

vars == <<documents, owned, last_call, MAX_DOCUMENTS, pc, documents_map, chunks,
          status, outcome, readyq, acc, folded, calls, result>>

buildVars == <<pc, documents_map, chunks, status, outcome, readyq, acc,
               folded, calls, result>>

Min(x, y) == IF x < y THEN x ELSE y
Max(x, y) == IF x > y THEN x ELSE y

\* ----------------------------------------------------------- extraction
\* Embeddable::embeddable of the document types of the model: "a" has one
\* embed target, "b" two, "big" BigFrags, "bad" fails (it has none).
embeddable(d) ==
    CASE d = "a"   -> [ok |-> TRUE, val |-> << <<"a", 1>> >>]
      [] d = "b"   -> [ok |-> TRUE, val |-> << <<"b", 1>>, <<"b", 2>> >>]
      [] d = "big" -> [ok |-> TRUE, val |-> [k \in 1..BigFrags |-> <<"big", k>>]]
      [] OTHER     -> [ok |-> FALSE, err |-> <<"ExtractionError", d>>]

\* EmbeddingModel::embed_documents on success: one Embedding per text, in order.
embed_documents(texts) ==
    [j \in 1..Len(texts) |-> [document |-> texts[j]]]

\* the EmbeddingError of the failed call for chunk k, and the outcomes of a call
EmbeddingError(k) == <<"EmbeddingError", k>>
Outcomes(k) == {[kind |-> "ok"], [kind |-> "err", err |-> EmbeddingError(k)]}

\* OneOrMany::one: the collection holding e alone
OneOrMany_one(e) == <<e>>

\* ---------------------------------------------------------- accumulation
NoCall == [op |-> "none"]

\* the number of chunks a build of docs would make (the bound's guard)
UnitsOf(docs) ==
    LET RECURSIVE Sum(_)
        Sum(n) == IF n = 0 THEN 0 ELSE Sum(n - 1) + Len(docs[n][2])
    IN Sum(Len(docs))

WithinBounds(docs) ==
    /\ Len(docs) <= MaxDocs
    /\ MAX_DOCUMENTS > 0 =>
         UnitsOf(docs) <= MaxBatches * MAX_DOCUMENTS

\* the callers of the model add their documents before they build
Quiescent == \A b \in AllBuilds : pc[b] = "idle"

\* document() as it would be if the pair were pushed before the result of
\* the extraction is looked at
document_push_first(d) ==
    /\ owned
    /\ Quiescent
    /\ LET embed_targets == embeddable(d) IN
         IF embed_targets.ok
         THEN /\ WithinBounds(Append(documents, <<d, embed_targets.val>>))
              /\ documents' = Append(documents, <<d, embed_targets.val>>)
              /\ owned' = TRUE
              /\ last_call' = [op |-> "document", args |-> <<d>>, ok |-> TRUE,
                               attempted |-> <<d>>]
         ELSE /\ documents' = Append(documents, <<d, <<>> >>)
              /\ owned' = FALSE
              /\ last_call' = [op |-> "document", args |-> <<d>>, ok |-> FALSE,
                               err |-> embed_targets.err, attempted |-> <<d>>]
    /\ UNCHANGED <<MAX_DOCUMENTS, buildVars>>

\* pub fn document(mut self, document: D) -> Result<Self, D::Error>
document(d) ==
    /\ owned
    /\ Quiescent
    /\ LET embed_targets == embeddable(d) IN
         IF embed_targets.ok
         THEN /\ WithinBounds(Append(documents, <<d, embed_targets.val>>))
              /\ documents' = Append(documents, <<d, embed_targets.val>>)
              /\ owned' = TRUE
              /\ last_call' = [op |-> "document", args |-> <<d>>, ok |-> TRUE,
                               attempted |-> <<d>>]
         ELSE /\ documents' = documents
              /\ owned' = FALSE
              /\ last_call' = [op |-> "document", args |-> <<d>>, ok |-> FALSE,
                               err |-> embed_targets.err, attempted |-> <<d>>]
    /\ UNCHANGED <<MAX_DOCUMENTS, buildVars>>

\* the loop of documents() as it would be if a failure undid the pushes of
\* the call
RECURSIVE pushAll_rollback(_, _, _, _)
pushAll_rollback(docs, tried, ds, i) ==
    IF i > Len(ds)
    THEN [documents |-> docs, ok |-> TRUE, attempted |-> tried]
    ELSE LET embed_targets == embeddable(ds[i]) IN
         IF embed_targets.ok
         THEN pushAll_rollback(Append(docs, <<ds[i], embed_targets.val>>),
                               Append(tried, ds[i]), ds, i + 1)
         ELSE [documents |-> SubSeq(docs, 1, Len(docs) - (i - 1)), ok |-> FALSE,
               err |-> embed_targets.err, attempted |-> Append(tried, ds[i])]

\* the loop of documents(): the state after the objects ds[i..] were handled
RECURSIVE pushAll(_, _, _, _)
pushAll(docs, tried, ds, i) ==
    IF i > Len(ds)
    THEN [documents |-> docs, ok |-> TRUE, attempted |-> tried]
    ELSE LET embed_targets == embeddable(ds[i]) IN
         IF embed_targets.ok
         THEN pushAll(Append(docs, <<ds[i], embed_targets.val>>),
                      Append(tried, ds[i]), ds, i + 1)
         ELSE [documents |-> docs, ok |-> FALSE, err |-> embed_targets.err,
               attempted |-> Append(tried, ds[i])]

\* pub fn documents(mut self, documents: Vec<D>) -> Result<Self, D::Error>
documents_(ds) ==
    /\ owned
    /\ Quiescent
    /\ LET r == pushAll(documents, <<>>, ds, 1) IN
         /\ WithinBounds(r.documents)
         /\ documents' = r.documents
         /\ owned' = r.ok
         /\ last_call' = IF r.ok
                   THEN [op |-> "documents", args |-> ds, ok |-> TRUE,
                         attempted |-> r.attempted]
                   ELSE [op |-> "documents", args |-> ds, ok |-> FALSE,
                         err |-> r.err, attempted |-> r.attempted]
    /\ UNCHANGED <<MAX_DOCUMENTS, buildVars>>

AddLists == UNION {[1..n -> Objects] : n \in 0..MaxAddLen}

\* ------------------------------------------------------------------ build
\* the map of documents as it would be if the ids were counted from the end
documents_map_of_reversed(docs) ==
    [id \in 0..(Len(docs) - 1) |-> docs[Len(docs) - id][1]]

\* self.documents.clone().into_iter().enumerate().map(..).collect::<HashMap>()
documents_map_of(docs) ==
    [id \in 0..(Len(docs) - 1) |-> docs[id + 1][1]]

\* stream::iter(self.documents.iter().enumerate()).flat_map(..): for each
\* document in list order, its embed targets in order, tagged with its index
RECURSIVE flat_map(_, _)
flat_map(docs, n) ==
    IF n = 0 THEN <<>>
    ELSE flat_map(docs, n - 1) \o
         [j \in 1..Len(docs[n][2]) |-> <<n - 1, docs[n][2][j]>>]

\* chunks as it would be if the buffer were emitted one item late
chunks_of_late(s, cap) ==
    [k \in 1..((Len(s) + cap) \div (cap + 1)) |->
        SubSeq(s, (k - 1) * (cap + 1) + 1, Min(k * (cap + 1), Len(s)))]

\* chunks as it would be if the rest of the stream were not emitted
chunks_of_exact(s, cap) ==
    [k \in 1..(Len(s) \div cap) |-> SubSeq(s, (k - 1) * cap + 1, k * cap)]

\* StreamExt::chunks(cap) over a stream that is never pending: the buffer is
\* emitted each time it holds cap items, and the non-empty rest when the
\* stream ends; chunk k is items (k-1)*cap+1 .. k*cap of the stream
chunks_of(s, cap) ==
    [k \in 1..((Len(s) + cap - 1) \div cap) |->
        SubSeq(s, (k - 1) * cap + 1, Min(k * cap, Len(s)))]

\* the limit the comment on buffer_unordered speaks of
buffer_limit_ten(cap) == 10

\* max(1, 1024 / M::MAX_DOCUMENTS)
buffer_limit(cap) == Max(1, FanOut \div cap)

\* docs.into_iter().unzip() and document_indices.zip(embeddings)
unzip_ids(docs) == [j \in 1..Len(docs) |-> docs[j][1]]
unzip_targets(docs) == [j \in 1..Len(docs) |-> docs[j][2]]
zip_reversed(ids, embeddings) ==
    [j \in 1..Min(Len(ids), Len(embeddings)) |->
        <<ids[Len(ids) + 1 - j], embeddings[j]>>]
zip(ids, embeddings) ==
    [j \in 1..Min(Len(ids), Len(embeddings)) |-> <<ids[j], embeddings[j]>>]

\* the embeddings of pairs tagged with document i, in the order of pairs
embeddings_of(pairs, i) ==
    LET mine == SelectSeq(pairs, LAMBDA p : p[1] = i)
    IN [j \in 1..Len(mine) |-> mine[j][2]]

\* embeddings.into_iter().for_each(|(i, embedding)|
\*     acc.entry(i).or_insert(OneOrMany::one(embedding.clone())).add(embedding.clone()))
\* or_insert gives the stored collection of i, or stores one(embedding) for
\* the first embedding of an absent i; add() is then applied to every
\* embedding of i, the first one included
\* for_each as it would be if the embeddings of a chunk were put in front of
\* the stored ones
for_each_prepend(a, pairs) ==
    LET ids == {pairs[j][1] : j \in DOMAIN pairs}
    IN [i \in DOMAIN a \cup ids |->
          IF i \notin ids THEN a[i]
          ELSE LET es == embeddings_of(pairs, i)
                   entry == IF i \in DOMAIN a THEN a[i] ELSE OneOrMany_one(es[1])
               IN es \o entry]

\* for_each as it would be if the entry of a document were replaced by the
\* embeddings of the chunk (insert) instead of extended
for_each_overwrite(a, pairs) ==
    LET ids == {pairs[j][1] : j \in DOMAIN pairs}
    IN [i \in DOMAIN a \cup ids |->
          IF i \notin ids THEN a[i]
          ELSE LET es == embeddings_of(pairs, i)
               IN OneOrMany_one(es[1]) \o es]

for_each(a, pairs) ==
    LET ids == {pairs[j][1] : j \in DOMAIN pairs}
        add_all(c, es) == c \o es
    IN [i \in DOMAIN a \cup ids |->
          IF i \notin ids THEN a[i]
          ELSE LET es == embeddings_of(pairs, i)
                   entry == IF i \in DOMAIN a THEN a[i] ELSE OneOrMany_one(es[1])
               IN add_all(entry, es)]

\* the closure of try_fold on the Ok output of one chunk future
try_fold_step(a, docs) ==
    LET pairs == zip(unzip_ids(docs), embed_documents(unzip_targets(docs)))
    IN for_each(a, pairs)

\* the orders in which a HashMap with the keys S can be iterated
IterOrders(S) ==
    {o \in [1..Cardinality(S) -> S] : \A x \in S : \E p \in DOMAIN o : o[p] = x}

\* .iter().fold(vec![], ..): one (document, embeddings) pair per key of the map
pair_up(map, a, order) ==
    [p \in 1..Len(order) |->
        [document |-> map[order[p]], embeddings |-> a[order[p]]]]

EmptyMap == [i \in {} |-> <<>>]
NoResult == [kind |-> "none"]

InFlight(b) ==
    {k \in DOMAIN chunks[b] : status[b][k] \in {"queued", "inflight", "responded"}}
Pending(b) == {k \in DOMAIN chunks[b] : status[b][k] = "pending"}
Queued(b) == {k \in DOMAIN chunks[b] : status[b][k] = "queued"}
Lowest(S) == CHOOSE k \in S : \A j \in S : k <= j

\* build() as it would be if it took the documents out of the builder
\* (std::mem::take) instead of reading them
build_start_take(b) ==
    /\ owned
    /\ pc[b] \in {"idle", "done", "failed"}
    /\ \A o \in AllBuilds : pc[o] # "panicked"
    /\ documents_map' = [documents_map EXCEPT ![b] = documents_map_of(documents)]
    /\ readyq' = [readyq EXCEPT ![b] = <<>>]
    /\ acc' = [acc EXCEPT ![b] = EmptyMap]
    /\ folded' = [folded EXCEPT ![b] = <<>>]
    /\ calls' = [calls EXCEPT ![b] = <<>>]
    /\ result' = [result EXCEPT ![b] = NoResult]
    /\ IF MAX_DOCUMENTS = 0
       THEN /\ pc' = [pc EXCEPT ![b] = "panicked"]
            /\ chunks' = [chunks EXCEPT ![b] = <<>>]
            /\ status' = [status EXCEPT ![b] = <<>>]
            /\ outcome' = [outcome EXCEPT ![b] = <<>>]
       ELSE LET cs == chunks_of(flat_map(documents, Len(documents)), MAX_DOCUMENTS)
            IN /\ pc' = [pc EXCEPT ![b] = "running"]
               /\ chunks' = [chunks EXCEPT ![b] = cs]
               /\ status' = [status EXCEPT ![b] = [k \in DOMAIN cs |-> "pending"]]
               /\ outcome' = [outcome EXCEPT ![b] = [k \in DOMAIN cs |-> NoResult]]
    /\ last_call' = [op |-> "build"]
    /\ documents' = <<>>
    /\ UNCHANGED <<owned, MAX_DOCUMENTS>>

\* build() up to the first poll of the pipeline: the map of documents, then
\* the stream; chunks(0) panics (assert!(capacity > 0))
build_start(b) ==
    /\ owned
    /\ pc[b] \in {"idle", "done", "failed"}
    /\ \A o \in AllBuilds : pc[o] # "panicked"
    /\ documents_map' = [documents_map EXCEPT ![b] = documents_map_of(documents)]
    /\ readyq' = [readyq EXCEPT ![b] = <<>>]
    /\ acc' = [acc EXCEPT ![b] = EmptyMap]
    /\ folded' = [folded EXCEPT ![b] = <<>>]
    /\ calls' = [calls EXCEPT ![b] = <<>>]
    /\ result' = [result EXCEPT ![b] = NoResult]
    /\ IF MAX_DOCUMENTS = 0
       THEN /\ pc' = [pc EXCEPT ![b] = "panicked"]
            /\ chunks' = [chunks EXCEPT ![b] = <<>>]
            /\ status' = [status EXCEPT ![b] = <<>>]
            /\ outcome' = [outcome EXCEPT ![b] = <<>>]
       ELSE LET cs == chunks_of(flat_map(documents, Len(documents)), MAX_DOCUMENTS)
            IN /\ pc' = [pc EXCEPT ![b] = "running"]
               /\ chunks' = [chunks EXCEPT ![b] = cs]
               /\ status' = [status EXCEPT ![b] = [k \in DOMAIN cs |-> "pending"]]
               /\ outcome' = [outcome EXCEPT ![b] = [k \in DOMAIN cs |-> NoResult]]
    /\ last_call' = [op |-> "build"]
    /\ UNCHANGED <<documents, owned, MAX_DOCUMENTS>>

\* BufferUnordered::poll_next, the filling loop: while the queue holds fewer
\* than max futures, the next chunk future is taken from the stream and pushed
\* the refill as it would be if the stream handed out its chunks in any order
push_any(b) ==
    /\ pc[b] = "running"
    /\ Cardinality(InFlight(b)) < buffer_limit(MAX_DOCUMENTS)
    /\ \E k \in Pending(b) : status' = [status EXCEPT ![b][k] = "queued"]
    /\ UNCHANGED <<documents, owned, last_call, MAX_DOCUMENTS, pc, documents_map,
                   chunks, outcome, readyq, acc, folded, calls, result>>

push(b) ==
    /\ pc[b] = "running"
    /\ Pending(b) # {}
    /\ Cardinality(InFlight(b)) < buffer_limit(MAX_DOCUMENTS)
    /\ status' = [status EXCEPT ![b][Lowest(Pending(b))] = "queued"]
    /\ UNCHANGED <<documents, owned, last_call, MAX_DOCUMENTS, pc, documents_map,
                   chunks, outcome, readyq, acc, folded, calls, result>>

\* the first poll as it would be if the queued futures were still polled
\* after try_fold has returned the error
start_after_failure(b) ==
    /\ pc[b] \in {"running", "failed"}
    /\ Queued(b) # {}
    /\ status' = [status EXCEPT ![b][Lowest(Queued(b))] = "inflight"]
    /\ calls' = [calls EXCEPT ![b] = Append(@, Lowest(Queued(b)))]
    /\ UNCHANGED <<documents, owned, last_call, MAX_DOCUMENTS, pc, documents_map,
                   chunks, outcome, readyq, acc, folded, result>>

\* first poll of a pushed chunk future (FuturesUnordered polls in push order):
\* unzip, then self.model.embed_documents(embed_targets) is called and awaited
start(b) ==
    /\ pc[b] = "running"
    /\ Queued(b) # {}
    /\ status' = [status EXCEPT ![b][Lowest(Queued(b))] = "inflight"]
    /\ calls' = [calls EXCEPT ![b] = Append(@, Lowest(Queued(b)))]
    /\ UNCHANGED <<documents, owned, last_call, MAX_DOCUMENTS, pc, documents_map,
                   chunks, outcome, readyq, acc, folded, result>>

\* the completion of a call as it would be if a failed call were made again
respond_retry(b, k, o) ==
    /\ pc[b] = "running"
    /\ k \in DOMAIN chunks[b]
    /\ status[b][k] = "inflight"
    /\ IF o.kind = "err" /\ Cardinality({j \in DOMAIN calls[b] : calls[b][j] = k}) < 2
       THEN /\ status' = [status EXCEPT ![b][k] = "queued"]
            /\ UNCHANGED <<outcome, readyq>>
       ELSE /\ status' = [status EXCEPT ![b][k] = "responded"]
            /\ outcome' = [outcome EXCEPT ![b][k] = o]
            /\ readyq' = [readyq EXCEPT ![b] = Append(@, k)]
    /\ UNCHANGED <<documents, owned, last_call, MAX_DOCUMENTS, pc, documents_map,
                   chunks, acc, folded, calls, result>>

\* the embedding model completes the call of chunk k, with the embeddings or
\* with an error; the chunk future is woken
respond(b, k, o) ==
    /\ pc[b] = "running"
    /\ k \in DOMAIN chunks[b]
    /\ status[b][k] = "inflight"
    /\ status' = [status EXCEPT ![b][k] = "responded"]
    /\ outcome' = [outcome EXCEPT ![b][k] = o]
    /\ readyq' = [readyq EXCEPT ![b] = Append(@, k)]
    /\ UNCHANGED <<documents, owned, last_call, MAX_DOCUMENTS, pc, documents_map,
                   chunks, acc, folded, calls, result>>

\* the fold as it would be if a failed chunk were skipped instead of ending
\* build()
yield_skip_err(b) ==
    /\ pc[b] = "running"
    /\ readyq[b] # <<>>
    /\ LET k == Head(readyq[b]) IN
         /\ readyq' = [readyq EXCEPT ![b] = Tail(@)]
         /\ status' = [status EXCEPT ![b][k] = "yielded"]
         /\ IF outcome[b][k].kind = "ok"
            THEN /\ acc' = [acc EXCEPT ![b] = try_fold_step(@, chunks[b][k])]
                 /\ folded' = [folded EXCEPT ![b] = Append(@, k)]
                 /\ UNCHANGED <<pc, result>>
            ELSE UNCHANGED <<pc, result, acc, folded>>
    /\ UNCHANGED <<documents, owned, last_call, MAX_DOCUMENTS, documents_map,
                   chunks, outcome, calls>>

\* BufferUnordered yields the output of the woken chunk future to try_fold:
\* Ok is folded into the accumulator, Err ends build() (`.await?`) and the
\* futures still in the queue are dropped with the stream
yield(b) ==
    /\ pc[b] = "running"
    /\ readyq[b] # <<>>
    /\ LET k == Head(readyq[b]) IN
         /\ readyq' = [readyq EXCEPT ![b] = Tail(@)]
         /\ status' = [status EXCEPT ![b][k] = "yielded"]
         /\ IF outcome[b][k].kind = "ok"
            THEN /\ acc' = [acc EXCEPT ![b] = try_fold_step(@, chunks[b][k])]
                 /\ folded' = [folded EXCEPT ![b] = Append(@, k)]
                 /\ UNCHANGED <<pc, result>>
            ELSE /\ pc' = [pc EXCEPT ![b] = "failed"]
                 /\ result' = [result EXCEPT ![b] = outcome[b][k]]
                 /\ UNCHANGED <<acc, folded>>
    /\ UNCHANGED <<documents, owned, last_call, MAX_DOCUMENTS, documents_map,
                   chunks, outcome, calls>>

\* the stream has ended and the queue is empty: try_fold returns the map,
\* which is iterated (in the order of the HashMap) into the returned vector
finish(b) ==
    /\ pc[b] = "running"
    /\ Pending(b) = {}
    /\ InFlight(b) = {}
    /\ \E order \in IterOrders(DOMAIN acc[b]) :
         result' = [result EXCEPT ![b] =
                      [kind |-> "ok",
                       val |-> pair_up(documents_map[b], acc[b], order)]]
    /\ pc' = [pc EXCEPT ![b] = "done"]
    /\ UNCHANGED <<documents, owned, last_call, MAX_DOCUMENTS, documents_map,
                   chunks, status, outcome, readyq, acc, folded, calls>>

\* --------------------------------------------------------- specification
Init ==
    /\ documents = <<>>
    /\ owned = TRUE
    /\ last_call = NoCall
    /\ MAX_DOCUMENTS \in MaxDocumentsValues
    /\ pc = [b \in AllBuilds |-> "idle"]
    /\ documents_map = [b \in AllBuilds |-> EmptyMap]
    /\ chunks = [b \in AllBuilds |-> <<>>]
    /\ status = [b \in AllBuilds |-> <<>>]
    /\ outcome = [b \in AllBuilds |-> <<>>]
    /\ readyq = [b \in AllBuilds |-> <<>>]
    /\ acc = [b \in AllBuilds |-> EmptyMap]
    /\ folded = [b \in AllBuilds |-> <<>>]
    /\ calls = [b \in AllBuilds |-> <<>>]
    /\ result = [b \in AllBuilds |-> NoResult]

\* the steps of the caller and of the build() calls B
NextOf(B) ==
    \/ \E d \in Objects : document(d)
    \/ \E ds \in AddLists : documents_(ds)
    \/ \E b \in B : build_start(b)
    \/ \E b \in B : push(b)
    \/ \E b \in B : start(b)
    \/ \E b \in B : \E k \in 1..(MaxBatches + 1) :
         \E o \in Outcomes(k) : respond(b, k, o)
    \/ \E b \in B : yield(b)
    \/ \E b \in B : finish(b)

Next == NextOf(Builds)

Spec == Init /\ [][Next]_vars

\* two build() calls on the same builder, polled in any interleaving (both
\* borrow the builder: `join!(builder.build(), builder.build())`)
\* the executor keeps polling the future of a build() that is awaited: the
\* steps build() can take by itself are taken; when the embedding model
\* answers a call is not up to build()
Fairness ==
    \A b \in Builds :
        /\ WF_vars(push(b))
        /\ WF_vars(start(b))
        /\ WF_vars(yield(b))
        /\ WF_vars(finish(b))

\* the limits of the fair specification: a model type without room for a
\* document, and the small ones
MaxDocumentsValuesFair == {0, 1, 2}
InitFair == Init /\ MAX_DOCUMENTS \in MaxDocumentsValuesFair

SpecFair == InitFair /\ [][Next]_vars /\ Fairness

MaxDocumentsValuesTwo == {0, 2}

InitTwo == Init /\ MAX_DOCUMENTS \in MaxDocumentsValuesTwo

NextTwo == NextOf(AllBuilds)

SpecTwo == InitTwo /\ [][NextTwo]_vars

\* ----------------------------------------------------------------- claims
Started(b) == pc[b] \in {"running", "done", "failed"}
Targets(doc) == {doc[2][t] : t \in DOMAIN doc[2]}
FailedCalls(b) ==
    {k \in DOMAIN outcome[b] : outcome[b][k].kind = "err"}
Outstanding(b) ==
    {k \in DOMAIN chunks[b] : status[b][k] \in {"queued", "inflight"}}
TwoDocChunk(b) ==
    \E k \in DOMAIN chunks[b] : \E x, y \in DOMAIN chunks[b][k] :
        chunks[b][k][x][1] # chunks[b][k][y][1]

\* C1: a successful build() pairs every document that contributed F embed
\* targets with exactly F embeddings.
C1_ExactlyFEmbeddings ==
    \A b \in AllBuilds :
        result[b].kind = "ok" =>
            \A p \in DOMAIN result[b].val :
                Len(result[b].val[p].embeddings) =
                    Len(embeddable(result[b].val[p].document).val)

\* C2: with a model that returns one embedding per text in the order of the
\* texts, every embedding held for a document id, and every embedding a
\* successful build() pairs with a document, was computed from an embed
\* target of that document, whatever the batch size and the order in which
\* the batch calls complete.
C2_OwnEmbeddingsOnly ==
    \A b \in AllBuilds :
        /\ Started(b) =>
             \A i \in DOMAIN acc[b] :
                 /\ i + 1 \in DOMAIN documents
                 /\ LET own == Targets(documents[i + 1]) IN
                    \A j \in DOMAIN acc[b][i] : acc[b][i][j].document \in own
        /\ result[b].kind = "ok" =>
             \A p \in DOMAIN result[b].val :
                 LET doc == result[b].val[p].document
                     own == Targets(<<doc, embeddable(doc).val>>)
                 IN \A j \in DOMAIN result[b].val[p].embeddings :
                        result[b].val[p].embeddings[j].document \in own

\* a successful build of at least two different documents in which a chunk
\* held targets of two documents and a later chunk was folded before an
\* earlier one
C2_Witness ==
    \E b \in AllBuilds :
        /\ result[b].kind = "ok"
        /\ TwoDocChunk(b)
        /\ \E x, y \in DOMAIN folded[b] : x < y /\ folded[b][x] > folded[b][y]
        /\ \E x, y \in DOMAIN documents : documents[x][1] # documents[y][1]

\* C3: when a batch call of a build() has failed, build() does not return a
\* result; a build() that has returned after a failed call returned the
\* error of one of its failed calls, and a build() that returned a result
\* had no failed call.
C3_FailFast ==
    \A b \in AllBuilds :
        /\ FailedCalls(b) # {} => result[b].kind # "ok" /\ pc[b] # "done"
        /\ pc[b] = "failed" =>
             /\ result[b].kind = "err"
             /\ \E k \in FailedCalls(b) : result[b].err = outcome[b][k].err
        /\ pc[b] = "done" => result[b].kind = "ok" /\ FailedCalls(b) = {}

\* a failed build in which a chunk had already been folded, another call had
\* succeeded without being folded, and two calls failed with different errors
C3_Witness ==
    \E b \in AllBuilds :
        /\ pc[b] = "failed"
        /\ folded[b] # <<>>
        /\ \E k, j \in FailedCalls(b) : outcome[b][k].err # outcome[b][j].err

C5_ChunkSizes ==
    \A b \in AllBuilds :
        Started(b) =>
            \A k \in DOMAIN chunks[b] :
                /\ Len(chunks[b][k]) >= 1
                /\ Len(chunks[b][k]) <= MAX_DOCUMENTS
                /\ k < Len(chunks[b]) => Len(chunks[b][k]) = MAX_DOCUMENTS

\* all chunks of a build were dispatched, the last one smaller than the
\* limit and the others full
C5_Witness ==
    \E b \in AllBuilds :
        /\ Started(b)
        /\ MAX_DOCUMENTS >= 2
        /\ Len(chunks[b]) >= 2
        /\ Len(chunks[b][Len(chunks[b])]) < MAX_DOCUMENTS
        /\ \A k \in DOMAIN chunks[b] : status[b][k] \in {"inflight", "responded"}

RECURSIVE Concat(_, _)
Concat(cs, n) == IF n = 0 THEN <<>> ELSE Concat(cs, n - 1) \o cs[n]

Offset(n) == UnitsOf(SubSeq(documents, 1, n - 1))

\* C6: the chunks of a build(), concatenated in chunk order, are the
\* flattened work units: as many units as the documents have embed targets,
\* and target j of the document at list position n, tagged with the id n-1,
\* at position (targets of the documents before n) + j.
C6_LosslessChunking ==
    \A b \in AllBuilds :
        Started(b) =>
            LET cat == Concat(chunks[b], Len(chunks[b])) IN
            /\ Len(cat) = UnitsOf(documents)
            /\ \A n \in DOMAIN documents :
                   \A j \in DOMAIN documents[n][2] :
                       cat[Offset(n) + j] = <<n - 1, documents[n][2][j]>>

\* a build whose last chunk is not full, where a chunk holds targets of two
\* documents and a document has targets in two chunks
C6_Witness ==
    \E b \in AllBuilds :
        /\ Started(b)
        /\ Len(chunks[b]) >= 2
        /\ Len(chunks[b][Len(chunks[b])]) < MAX_DOCUMENTS
        /\ TwoDocChunk(b)
        /\ \E k \in DOMAIN chunks[b] :
               k < Len(chunks[b]) /\
               chunks[b][k][Len(chunks[b][k])][1] = chunks[b][k + 1][1][1]

\* C7: with MAX_DOCUMENTS = 0 build() does not fail abnormally and every
\* chunk it makes holds exactly one work unit.
C7_ZeroLimitIsOne ==
    \A b \in AllBuilds :
        MAX_DOCUMENTS = 0 =>
            /\ pc[b] # "panicked"
            /\ \A k \in DOMAIN chunks[b] : Len(chunks[b][k]) = 1

\* C8: a build() of an empty document list makes no chunk, issues no batch
\* call, and returns an empty result.
C8_EmptyBuild ==
    \A b \in AllBuilds :
        (pc[b] # "idle" /\ DOMAIN documents_map[b] = {}) =>
            /\ pc[b] \in {"running", "done"}
            /\ chunks[b] = <<>>
            /\ pc[b] = "done" => result[b] = [kind |-> "ok", val |-> <<>>]

\* C9: document(d) appends <<d, targets>> at the end of the list and leaves
\* the earlier entries as they were when the extraction succeeds; when it
\* fails the call returns the extraction error and the list is the one of
\* before the call, with the same length.
C9_Document ==
    [][\A d \in Objects :
          document(d) =>
              IF d # "bad"
              THEN /\ Len(documents') = Len(documents) + 1
                   /\ SubSeq(documents', 1, Len(documents)) = documents
                   /\ documents'[Len(documents')] = <<d, embeddable(d).val>>
                   /\ last_call'.ok
              ELSE /\ documents' = documents
                   /\ Len(documents') = Len(documents)
                   /\ ~last_call'.ok
                   /\ last_call'.err = <<"ExtractionError", d>>]_vars

\* document() has failed on a builder that held documents
C9_Witness ==
    /\ last_call.op = "document"
    /\ ~last_call.ok
    /\ Len(documents) >= 1

\* C10: documents(ds) handles ds in order and stops at the first object whose
\* extraction fails, returning its error without trying the objects after
\* it; the list is then the list of before the call followed by the objects
\* of ds before the failing one (all of ds when none fails).
C10_Documents ==
    [][(/\ last_call'.op = "documents"
        /\ <<documents, owned, last_call>>' # <<documents, owned, last_call>>) =>
          LET ds == last_call'.args
              bad == {i \in DOMAIN ds : ds[i] = "bad"}
              n == IF bad = {} THEN Len(ds) ELSE Lowest(bad) - 1
          IN /\ documents' =
                    documents \o [i \in 1..n |-> <<ds[i], embeddable(ds[i]).val>>]
             /\ last_call'.ok = (bad = {})
             /\ bad = {} => last_call'.attempted = ds
             /\ bad # {} =>
                    /\ last_call'.err = <<"ExtractionError", ds[n + 1]>>
                    /\ last_call'.attempted = SubSeq(ds, 1, n + 1)]_vars

\* documents() has failed after it had added an object of the call, with
\* objects of the call left after the failing one, on a builder that held a
\* document before the call
C10_Witness ==
    /\ last_call.op = "documents"
    /\ ~last_call.ok
    /\ Len(last_call.attempted) >= 2
    /\ Len(last_call.args) > Len(last_call.attempted)
    /\ Len(documents) >= Len(last_call.attempted)

\* C11: a successful build() returns one pair per document of the list, as
\* many pairs as documents, and the pairs are, for the ids in some order, the
\* document at list position id + 1 with the embeddings aggregated under id.
C11_OnePairPerDocument ==
    \A b \in AllBuilds :
        result[b].kind = "ok" =>
            /\ Len(result[b].val) = Len(documents)
            /\ DOMAIN acc[b] = {n - 1 : n \in DOMAIN documents}
            /\ \E o \in IterOrders(DOMAIN acc[b]) :
                   \A p \in DOMAIN result[b].val :
                       /\ result[b].val[p].document = documents[o[p] + 1][1]
                       /\ result[b].val[p].embeddings = acc[b][o[p]]

\* a successful build of two documents equal in content
C11_Witness ==
    \E b \in AllBuilds :
        /\ result[b].kind = "ok"
        /\ Len(documents) = 2
        /\ documents[1] = documents[2]

Count(s, e) == Cardinality({j \in DOMAIN s : s[j] = e})
SameMultiset(s, t) ==
    /\ Len(s) = Len(t)
    /\ \A j \in DOMAIN s : Count(s, s[j]) = Count(t, s[j])

\* C12: two successful build() calls on the same document list, whose batch
\* calls may complete in different orders, attribute the same multiset of
\* embeddings to every document.
C12_OrderIndependent ==
    (result[1].kind = "ok" /\ result[2].kind = "ok") =>
        /\ DOMAIN acc[1] = DOMAIN acc[2]
        /\ \A i \in DOMAIN acc[1] : SameMultiset(acc[1][i], acc[2][i])

BuildState(b) ==
    <<pc[b], documents_map[b], chunks[b], status[b], outcome[b], readyq[b],
      acc[b], folded[b], calls[b], result[b]>>

\* the accumulator of a build() that folded the chunks cs[order[1..n]]
RECURSIVE AloneAcc(_, _, _)
AloneAcc(cs, order, n) ==
    IF n = 0 THEN EmptyMap
    ELSE try_fold_step(AloneAcc(cs, order, n - 1), cs[order[n]])

\* what a build() holds depends on the document list and on the outcomes and
\* the completion order of its own calls only
AloneOutcome ==
    \A b \in AllBuilds :
        Started(b) =>
            /\ documents_map[b] = documents_map_of(documents)
            /\ chunks[b] = chunks_of(flat_map(documents, Len(documents)), MAX_DOCUMENTS)
            /\ acc[b] = AloneAcc(chunks[b], folded[b], Len(folded[b]))
            /\ pc[b] = "failed" =>
                   \E k \in FailedCalls(b) : result[b] = outcome[b][k]
            /\ pc[b] = "done" =>
                   \E o \in IterOrders(DOMAIN acc[b]) :
                       result[b].val = pair_up(documents_map[b], acc[b], o)

\* C13: no step of a build() changes the document list of the builder (nor
\* takes the builder from the caller), a step of one build() changes nothing
\* of another build(), and what a build() holds and returns is what its own
\* calls and the list give, whatever the other build() does.
C13_BuildsAreIndependent ==
    /\ []AloneOutcome
    /\ [][/\ (\E b \in AllBuilds : BuildState(b)' # BuildState(b)) =>
                (documents' = documents /\ owned' = owned)
          /\ \A b, c \in AllBuilds :
                (b # c /\ BuildState(b)' # BuildState(b)) =>
                    BuildState(c)' = BuildState(c)]_vars

\* two build() calls are in progress on a list of two documents, each has
\* folded a chunk, and they folded different chunks first
C13_Witness ==
    /\ pc[1] = "running" /\ pc[2] = "running"
    /\ Len(documents) = 2
    /\ folded[1] # <<>> /\ folded[2] # <<>>
    /\ folded[1][1] # folded[2][1]

\* C14: a successful build() over N >= 1 work units with MAX_DOCUMENTS >= 1
\* has called the embedding model ceil(N / MAX_DOCUMENTS) times, once for
\* every chunk.
C14_OneCallPerChunk ==
    \A b \in AllBuilds :
        (result[b].kind = "ok" /\ UnitsOf(documents) >= 1 /\ MAX_DOCUMENTS >= 1) =>
            LET N == UnitsOf(documents)
                n == (N \div MAX_DOCUMENTS) +
                     (IF N % MAX_DOCUMENTS = 0 THEN 0 ELSE 1)
            IN /\ Len(calls[b]) = n
               /\ Len(chunks[b]) = n
               /\ \A k \in 1..n : Count(calls[b], k) = 1

\* a successful build with two calls or more whose last chunk was not full
C14_Witness ==
    \E b \in AllBuilds :
        /\ result[b].kind = "ok"
        /\ MAX_DOCUMENTS >= 2
        /\ Len(calls[b]) >= 2
        /\ UnitsOf(documents) % MAX_DOCUMENTS # 0

\* C15: chunks are dispatched in submission order: the k-th call of a build is
\* the call of chunk k, and the chunks taken from the stream so far are the
\* first ones, whatever the order in which earlier calls completed.
C15_DispatchInOrder ==
    \A b \in AllBuilds :
        /\ \A j \in DOMAIN calls[b] : calls[b][j] = j
        /\ \A k \in DOMAIN status[b] :
               status[b][k] # "pending" =>
                   \A j \in 1..(k - 1) : status[b][j] # "pending"
        /\ \A k \in DOMAIN status[b] :
               status[b][k] \in {"inflight", "responded", "yielded"} =>
                   \A j \in 1..(k - 1) :
                       status[b][j] \in {"inflight", "responded", "yielded"}

\* a later chunk was folded before an earlier one, and a further chunk was
\* dispatched after that
C15_Witness ==
    \E b \in AllBuilds :
        /\ Len(folded[b]) >= 1
        /\ folded[b][1] = 2
        /\ Len(calls[b]) = 3

\* C16: when every call that was issued is answered, a build() that was
\* started returns, Ok or the error of a call; and while the queue of a build
\* that has seen no error is below its limit and chunks are left in the
\* stream, a further chunk is taken from the stream.
EveryCallCompletes ==
    \A b \in AllBuilds :
        WF_vars(\E k \in 1..(MaxBatches + 1) : \E o \in Outcomes(k) : respond(b, k, o))

RoomFor(b) ==
    /\ pc[b] = "running"
    /\ Pending(b) # {}
    /\ Cardinality(InFlight(b)) < buffer_limit(MAX_DOCUMENTS)

C16_BuildCompletes ==
    EveryCallCompletes =>
        \A b \in AllBuilds :
            /\ (pc[b] # "idle") ~> (pc[b] \in {"done", "failed"})
            /\ \A n \in 1..(MaxBatches + 1) :
                   (RoomFor(b) /\ Cardinality(Pending(b)) = n)
                       ~> (~RoomFor(b) \/ Cardinality(Pending(b)) < n)

\* C17: while a build() runs its accumulator only grows: every id that is a
\* key stays one, and the collection stored under a key after a step starts
\* with the collection stored before the step.
C17_AccOnlyGrows ==
    [][\A b \in AllBuilds :
          pc[b] = "running" =>
              /\ DOMAIN acc[b] \subseteq DOMAIN acc'[b]
              /\ \A i \in DOMAIN acc[b] :
                     /\ Len(acc'[b][i]) >= Len(acc[b][i])
                     /\ SubSeq(acc'[b][i], 1, Len(acc[b][i])) = acc[b][i]]_vars

\* two chunks holding embed targets of the same document have been folded
C17_Witness ==
    \E b \in AllBuilds :
        /\ Len(folded[b]) >= 2
        /\ \E i \in DOMAIN acc[b] :
               /\ chunks[b][folded[b][1]][Len(chunks[b][folded[b][1]])][1] = i
               /\ chunks[b][folded[b][2]][1][1] = i
               /\ Len(acc[b][i]) >= 3

\* C18: the step in which build() sees the Err of a call issues no call and
\* folds nothing, and from then on, as long as this build() is the last one,
\* no chunk is taken from the stream, no call is issued or answered, nothing
\* is folded, and what build() returned stays the error.
C18_NothingAfterFailure ==
    [][\A b \in AllBuilds :
          /\ (pc[b] = "running" /\ pc'[b] = "failed") =>
                 /\ result'[b].kind = "err"
                 /\ calls'[b] = calls[b]
                 /\ acc'[b] = acc[b]
                 /\ folded'[b] = folded[b]
                 /\ Pending(b)' = Pending(b)
          /\ (pc[b] = "failed" /\ pc'[b] = "failed") =>
                 /\ result'[b] = result[b]
                 /\ result[b].kind = "err"
                 /\ calls'[b] = calls[b]
                 /\ status'[b] = status[b]
                 /\ outcome'[b] = outcome[b]
                 /\ acc'[b] = acc[b]
                 /\ folded'[b] = folded[b]]_vars

\* a build() that failed while a call was in flight and another future was
\* queued
C18_Witness ==
    \E b \in AllBuilds :
        /\ pc[b] = "failed"
        /\ \E k \in DOMAIN status[b] : status[b][k] = "inflight"
        /\ \E k \in DOMAIN status[b] : status[b][k] = "queued"

\* the embed target an embedding was computed from is target number
\* FragmentOf(e) of its document
FragmentOf(e) == e.document[2]

\* the chunk that holds embed target f of the document with id i, and the
\* place of chunk k among the folded chunks of build b
ChunkOf(i, f) == ((Offset(i + 1) + f - 1) \div MAX_DOCUMENTS) + 1
FoldPos(b, k) == CHOOSE q \in DOMAIN folded[b] : folded[b][q] = k

\* C19 as claimed: in the result of a successful build() the embeddings of a
\* document are in the order of its embed targets, whatever the order in
\* which the calls completed.
C19_FragmentOrder ==
    \A b \in AllBuilds : result[b].kind = "ok" =>
        \A p \in DOMAIN result[b].val :
            LET es == result[b].val[p].embeddings
            IN \A j \in 1..(Len(es) - 1) :
                   FragmentOf(es[j]) <= FragmentOf(es[j + 1])

\* C19 as amended: in the result of a successful build() the embeddings of a
\* document that came from one chunk are in the order of its embed targets,
\* and the embeddings of a chunk folded earlier come before those of a chunk
\* folded later.
C19_FoldThenFragmentOrder ==
    \A b \in AllBuilds : result[b].kind = "ok" =>
        \A i \in DOMAIN acc[b] :
            LET es == acc[b][i]
                off == Offset(i + 1)
                ck(e) == ((off + FragmentOf(e) - 1) \div MAX_DOCUMENTS) + 1
            IN /\ \E p \in DOMAIN result[b].val : result[b].val[p].embeddings = es
               /\ \A j \in 1..(Len(es) - 1) :
                      \/ /\ ck(es[j]) = ck(es[j + 1])
                         /\ FragmentOf(es[j]) <= FragmentOf(es[j + 1])
                      \/ /\ ck(es[j]) # ck(es[j + 1])
                         /\ FoldPos(b, ck(es[j])) < FoldPos(b, ck(es[j + 1]))

\* a successful build() of a document whose embed targets were in two chunks,
\* the later of which was folded first
C19_Witness ==
    \E b \in AllBuilds :
        /\ result[b].kind = "ok"
        /\ \E i \in DOMAIN acc[b] :
               /\ ChunkOf(i, 1) # ChunkOf(i, Len(documents[i + 1][2]))
               /\ FragmentOf(acc[b][i][1]) > FragmentOf(acc[b][i][Len(acc[b][i])])

====
